---- MODULE Spec2Model ----
(***************************************************************************)
(* Model of soql-app.py: the Salesforce SOQL query executor.               *)
(*                                                                         *)
(* Strings are sequences of tokens.  The two scheme prefixes "http://" and *)
(* "https://", the blank " " and the path separator "/" are tokens of      *)
(* their own, so that str.strip, str.startswith and urljoin are computed   *)
(* on the text and not assumed.  A value that Python may hold as None is a *)
(* set of at most one element: None is {} and the value v is {v}.          *)
(***************************************************************************)
EXTENDS Integers, Sequences, FiniteSets, TLC

VARIABLES
    pc,               \* position of the script run
    auth_json,        \* the parsed content of the uploaded auth.json
    auth_credentials, \* main: result of load_auth_credentials, None before
    instance_url,     \* main: the normalised instance URL
    query_url,        \* main: full_url, the formed API URL
    headers,          \* main: the request headers, None before the query
    all_pages,        \* main: the "Fetch all pages" checkbox
    full_url,         \* fetch_data: the URL of the current iteration
    all_records,      \* fetch_data: the aggregate
    last_response,    \* fetch_data: JSON of the last successful page
    data,             \* main: first component of fetch_data's result
    requested,        \* every requests.get issued, in order
    received,         \* every outcome of a requests.get, in order
    ui                \* what the script has rendered

vars == <<pc, auth_json, auth_credentials, instance_url, query_url, headers,
          all_pages, full_url, all_records, last_response, data, requested,
          received, ui>>

----------------------------------------------------------------------------
(* Bounds *)

MaxLen == 3        \* longest instance URL text of the credential check
MaxRequests == 3   \* most requests of one execution

----------------------------------------------------------------------------
(* Python values *)

None == {}
Some(v) == {v}
Val(o) == CHOOSE v \in o : TRUE

\* truth value of an optional string or list: None, "" and [] are false
Truthy(o) == o # None /\ o # Some(<<>>)

\* a or b
PyOr(a, b) == IF Truthy(a) THEN a ELSE b

SeqsUpTo(S, n) == UNION {[1..k -> S] : k \in 0..n}

----------------------------------------------------------------------------
(* str.strip and str.startswith *)

IsSpace(t) == t = " "

RECURSIVE lstrip(_)
lstrip(s) == IF s # <<>> /\ IsSpace(Head(s)) THEN lstrip(Tail(s)) ELSE s

RECURSIVE rstrip(_)
rstrip(s) ==
    IF s # <<>> /\ IsSpace(s[Len(s)]) THEN rstrip(SubSeq(s, 1, Len(s) - 1))
    ELSE s

strip(s) == rstrip(lstrip(s))

startswith(s, prefixes) == s # <<>> /\ Head(s) \in prefixes

SchemePrefixes == {"http://", "https://"}

\* main, lines 98-102: strip, then prepend https:// when no scheme is there
NormalizeInstanceUrl_NoCheck(raw) == <<"https://">> \o strip(raw)

NormalizeInstanceUrl(raw) ==
    LET stripped == strip(raw)
    IN  IF ~startswith(stripped, SchemePrefixes)
        THEN <<"https://">> \o stripped
        ELSE stripped

----------------------------------------------------------------------------
(* load_auth_credentials *)

load_auth_credentials_CamelFirst(auth_data) ==
    LET access_token == PyOr(auth_data.accessToken, auth_data.access_token)
        url == PyOr(auth_data.instanceUrl, auth_data.instance_url)
    IN  IF ~Truthy(access_token) \/ ~Truthy(url)
        THEN [raised |-> TRUE, access_token |-> None, instance_url |-> None]
        ELSE [raised |-> FALSE, access_token |-> access_token,
              instance_url |-> url]

load_auth_credentials_NoneOnly(auth_data) ==
    LET access_token == PyOr(auth_data.access_token, auth_data.accessToken)
        url == PyOr(auth_data.instance_url, auth_data.instanceUrl)
    IN  IF access_token = None \/ url = None
        THEN [raised |-> TRUE, access_token |-> None, instance_url |-> None]
        ELSE [raised |-> FALSE, access_token |-> access_token,
              instance_url |-> url]

\* raised: the ValueError of line 32
load_auth_credentials(auth_data) ==
    LET access_token == PyOr(auth_data.access_token, auth_data.accessToken)
        url == PyOr(auth_data.instance_url, auth_data.instanceUrl)
    IN  IF ~Truthy(access_token) \/ ~Truthy(url)
        THEN [raised |-> TRUE, access_token |-> None, instance_url |-> None]
        ELSE [raised |-> FALSE, access_token |-> access_token,
              instance_url |-> url]

----------------------------------------------------------------------------
(* urllib.parse.urljoin, on a base that carries a scheme *)

Absolute(url) == startswith(url, SchemePrefixes)

\* index of the first "/" after the scheme, Len + 1 when there is none
RECURSIVE PathStart(_, _)
PathStart(base, i) ==
    IF i > Len(base) \/ base[i] = "/" THEN i ELSE PathStart(base, i + 1)

\* scheme and network location of the base
Origin(base) == SubSeq(base, 1, PathStart(base, 2) - 1)

Path(base) == SubSeq(base, PathStart(base, 2), Len(base))

\* the base path without its last segment
RECURSIVE MergeDir(_)
MergeDir(p) ==
    IF p = <<>> THEN <<"/">>
    ELSE IF p[Len(p)] = "/" THEN p
    ELSE MergeDir(SubSeq(p, 1, Len(p) - 1))

urljoin_Concat(base, url) == base \o url

urljoin(base, url) ==
    IF base = <<>> THEN url
    ELSE IF url = <<>> THEN base
    ELSE IF Absolute(url) THEN url
    ELSE IF Head(url) = "/" THEN Origin(base) \o url
    ELSE Origin(base) \o MergeDir(Path(base)) \o url

----------------------------------------------------------------------------
(* main: the request of a query, lines 161-173 *)

endpoint_path(api_version, use_tooling_api) ==
    IF use_tooling_api
    THEN <<"/", "services/data/v", api_version, "/tooling/query">>
    ELSE <<"/", "services/data/v", api_version, "/query">>

FormUrl(base, api_version, use_tooling_api, soql_query) ==
    urljoin(base, endpoint_path(api_version, use_tooling_api)
                      \o <<"?q=">> \o soql_query)

Headers(access_token) ==
    [Authorization |-> <<"Bearer ">> \o access_token,
     ContentType |-> "application/json"]

Request(url, hdrs) == [url |-> url, headers |-> hdrs]

----------------------------------------------------------------------------
(* fetch_data: one iteration of the loop, lines 50-68 *)

\* line 53
Failed_ClientErrorsOnly(status_code) == status_code >= 400

Failed(status_code) == status_code # 200

\* last_response.get('records', [])
RecordsOf(page) == IF page.records = None THEN <<>> ELSE Val(page.records)

\* line 58
Extend_Prepend(records, page) == RecordsOf(page) \o records

Extend(records, page) == records \o RecordsOf(page)

\* lines 61-66: the value of full_url after the iteration
NextUrl(fetch_all, url, page, base) ==
    IF fetch_all
    THEN IF Truthy(page.nextRecordsUrl)
         THEN Some(urljoin(base, Val(page.nextRecordsUrl)))
         ELSE page.nextRecordsUrl
    ELSE url

\* the loop goes round again: no break at line 66 and full_url is true
Continues_Always(fetch_all, url) == Truthy(url)

Continues_NoRepeat(fetch_all, url) ==
    fetch_all /\ Truthy(url) /\ url # full_url

Continues(fetch_all, url) == fetch_all /\ Truthy(url)

----------------------------------------------------------------------------
(* main: what is rendered, lines 175-212 *)

NoOutput ==
    [errors |-> <<>>, warning |-> FALSE, dataframe |-> None, csv |-> None,
     code |-> None, json |-> None]

FetchError(status_code, text) ==
    [kind |-> "Failed to fetch data", status |-> status_code, text |-> text]

ExecutionError(e) ==
    [kind |-> "An error occurred", status |-> 0, text |-> e]

QueryRequired ==
    [kind |-> "SOQL query is required.", status |-> 0, text |-> ""]

\* pd.DataFrame(data): one row per record, in order (the records are opaque
\* here, so the columns are not modelled)
DataFrame(records) == [rows |-> records]

to_csv(df) ==
    [file_name |-> "salesforce_data.csv", mime |-> "text/csv",
     lines |-> <<"header">> \o df.rows]

\* truth value of the response dict: {} is false
PageTruthy(page) == page.records # None \/ page.nextRecordsUrl # None

\* lines 183-209, for data that is not None
Materialize_EmptyIsError(screen, records, page, url) ==
    IF records # <<>>
    THEN [screen EXCEPT !.dataframe = Some(DataFrame(records)),
                        !.csv = Some(to_csv(DataFrame(records))),
                        !.code = Some(url),
                        !.json = IF PageTruthy(page) THEN Some(page) ELSE None]
    ELSE [screen EXCEPT !.errors = Append(@, FetchError(200, "No data found."))]

Materialize(screen, records, page, url) ==
    IF records # <<>>
    THEN [screen EXCEPT !.dataframe = Some(DataFrame(records)),
                        !.csv = Some(to_csv(DataFrame(records))),
                        !.code = Some(url),
                        !.json = IF PageTruthy(page) THEN Some(page) ELSE None]
    ELSE [screen EXCEPT !.warning = TRUE]

\* lines 54-55 and 179-180
OnFailedResponse(screen, records, resp, url) ==
    [screen EXCEPT !.errors = Append(@, FetchError(resp.status, resp.text))]

\* lines 211-212
OnException_ShowPartial(screen, records, page, url, e) ==
    IF page = None THEN [screen EXCEPT !.errors = Append(@, ExecutionError(e))]
    ELSE Materialize([screen EXCEPT !.errors = Append(@, ExecutionError(e))],
                     records, Val(page), url)

OnException(screen, records, page, url, e) ==
    [screen EXCEPT !.errors = Append(@, ExecutionError(e))]

----------------------------------------------------------------------------
(* Inputs *)

UrlChars == {"https://", "http://", " ", "a"}

UrlTexts == SeqsUpTo(UrlChars, MaxLen)

ShortUrlTexts == {<<>>, <<"a">>}

Opt(S) == {None} \cup {Some(v) : v \in S}

AuthJson(t1, t2, u1, u2) ==
    [access_token |-> t1, accessToken |-> t2,
     instance_url |-> u1, instanceUrl |-> u2]

\* the auth.json files of the credential check
AllAuthJson ==
    {AuthJson(t1, t2, u1, u2) :
        t1 \in Opt({<<>>, <<"tok1">>}), t2 \in Opt({<<>>, <<"tok2">>}),
        u1 \in Opt(UrlTexts), u2 \in Opt(ShortUrlTexts)}
    \cup
    {AuthJson(t1, t2, u1, u2) :
        t1 \in Opt({<<>>, <<"tok1">>}), t2 \in Opt({<<>>, <<"tok2">>}),
        u1 \in Opt(ShortUrlTexts), u2 \in Opt(UrlTexts)}

\* the auth.json files of the query executions
SessionAuthJson ==
    { AuthJson(Some(<<"tok1">>), None, Some(<<"https://", "a", "/", "p">>), None),
      AuthJson(None, Some(<<"tok2">>), None, Some(<<" ", "b">>)),
      AuthJson(None, Some(<<>>), Some(<<"https://", "a">>), None),
      AuthJson(Some(<<"tok1">>), None, Some(<<>>), None) }

Queries == {<<>>, <<"SELECT">>}

ApiVersions == {"60.0"}

Records == {"r1", "r2"}

RelativeRef == <<"/", "query/01g-500">>

AbsoluteRef == <<"https://", "c", "/", "query/01g-900">>

Refs == {None, Some(<<>>), Some(RelativeRef), Some(AbsoluteRef)}

\* the record lists of a page: the rows of a result are distinct
RecordLists ==
    {s \in SeqsUpTo(Records, Cardinality(Records)) :
        \A i, j \in 1..Len(s) : s[i] = s[j] => i = j}

Pages == [records : Opt(RecordLists), nextRecordsUrl : Refs]

EmptyPage == [records |-> None, nextRecordsUrl |-> None]

CreatedPage == [records |-> Some(<<"r2">>), nextRecordsUrl |-> None]

Responses ==
    {[status |-> 200, text |-> "json", json |-> p] : p \in Pages}
    \cup {[status |-> 403, text |-> "expired", json |-> EmptyPage],
          [status |-> 201, text |-> "created", json |-> CreatedPage]}

Exceptions == {"ConnectionError", "Timeout"}

----------------------------------------------------------------------------
(* The script *)

InitWith(files) ==
    /\ pc = "start"
    /\ auth_json \in files
    /\ auth_credentials = None
    /\ instance_url = <<>>
    /\ query_url = None
    /\ headers = None
    /\ all_pages = FALSE
    /\ full_url = None
    /\ all_records = <<>>
    /\ last_response = None
    /\ data = None
    /\ requested = <<>>
    /\ received = <<>>
    /\ ui = NoOutput

Init == InitWith(SessionAuthJson)

InitCredentials == InitWith(AllAuthJson)

\* main, lines 95-102: the uploaded file is read and the URL normalised;
\* the ValueError of load_auth_credentials is not caught and ends the run
Upload ==
    /\ pc = "start"
    /\ LET c == load_auth_credentials(auth_json)
       IN  IF c.raised
           THEN /\ pc' = "cred_error"
                /\ UNCHANGED <<auth_credentials, instance_url>>
           ELSE /\ pc' = "form"
                /\ auth_credentials' =
                       Some([access_token |-> Val(c.access_token),
                             instance_url |-> Val(c.instance_url)])
                /\ instance_url' = NormalizeInstanceUrl(Val(c.instance_url))
    /\ UNCHANGED <<auth_json, query_url, headers, all_pages, full_url,
                   all_records, last_response, data, requested, received, ui>>

\* main, lines 156-177 and fetch_data up to the first requests.get
Execute ==
    /\ pc = "form"
    /\ \E soql_query \in Queries, api_version \in ApiVersions,
          use_tooling_api \in BOOLEAN, fetch_all \in BOOLEAN :
         IF soql_query = <<>>
         THEN /\ ui' = [ui EXCEPT !.errors = Append(@, QueryRequired)]
              /\ pc' = "done"
              /\ UNCHANGED <<query_url, headers, all_pages, full_url,
                             requested>>
         ELSE LET url == FormUrl(instance_url, api_version, use_tooling_api,
                                 soql_query)
                  hdrs == Headers(Val(auth_credentials).access_token)
              IN  /\ query_url' = Some(url)
                  /\ headers' = Some(hdrs)
                  /\ all_pages' = fetch_all
                  /\ full_url' = Some(url)
                  /\ requested' = Append(requested, Request(url, hdrs))
                  /\ pc' = "wait"
                  /\ UNCHANGED ui
    /\ UNCHANGED <<auth_json, auth_credentials, instance_url, all_records,
                   last_response, data, received>>

\* fetch_data, lines 51-68, from the return of requests.get to the next
\* requests.get or to the end of main
Respond ==
    /\ pc = "wait"
    /\ \E resp \in Responses :
         /\ received' = Append(received,
                [kind |-> "response", status |-> resp.status,
                 text |-> resp.text, json |-> resp.json])
         /\ IF Failed(resp.status)
            THEN /\ ui' = OnFailedResponse(ui, all_records, resp,
                                           Val(query_url))
                 /\ data' = None
                 /\ pc' = "done"
                 /\ UNCHANGED <<full_url, all_records, last_response,
                                requested>>
            ELSE LET records == Extend(all_records, resp.json)
                     next == NextUrl(all_pages, full_url, resp.json,
                                     instance_url)
                 IN  /\ all_records' = records
                     /\ last_response' = Some(resp.json)
                     /\ full_url' = next
                     /\ IF Continues(all_pages, next)
                        THEN /\ Len(requested) < MaxRequests
                             /\ requested' = Append(requested,
                                    Request(Val(next), Val(headers)))
                             /\ pc' = "wait"
                             /\ UNCHANGED <<data, ui>>
                        ELSE /\ data' = Some(records)
                             /\ ui' = Materialize(ui, records, resp.json,
                                                  Val(query_url))
                             /\ pc' = "done"
                             /\ UNCHANGED requested
    /\ UNCHANGED <<auth_json, auth_credentials, instance_url, query_url,
                   headers, all_pages>>

\* requests.get raises: caught at line 211
RaiseException ==
    /\ pc = "wait"
    /\ \E e \in Exceptions :
         /\ received' = Append(received,
                [kind |-> "exception", status |-> 0, text |-> e,
                 json |-> EmptyPage])
         /\ ui' = OnException(ui, all_records, last_response, Val(query_url), e)
    /\ pc' = "done"
    /\ UNCHANGED <<auth_json, auth_credentials, instance_url, query_url,
                   headers, all_pages, full_url, all_records, last_response,
                   data, requested>>

Next == Upload \/ Execute \/ Respond \/ RaiseException

Spec == Init /\ [][Next]_vars

NextCredentials == Upload

SpecCredentials == InitCredentials /\ [][NextCredentials]_vars

----------------------------------------------------------------------------
(* Properties *)

IsPage(r) == r.kind = "response" /\ r.status = 200

HasRef(r) == r.json.nextRecordsUrl \notin {None, Some(<<>>)}

PageRecords(r) ==
    IF r.json.records = None THEN <<>> ELSE Val(r.json.records)

RECURSIVE ConcatPages(_, _)
ConcatPages(log, n) ==
    IF n = 0 THEN <<>> ELSE ConcatPages(log, n - 1) \o PageRecords(log[n])

RECURSIVE SumPages(_, _)
SumPages(log, n) ==
    IF n = 0 THEN 0 ELSE SumPages(log, n - 1) + Len(PageRecords(log[n]))

Executed == pc = "done" /\ data # None

\* C1: with fetchAllPages true, fetch_data returns after the first page
\* without a continuation reference, every page before it carried one, and
\* the aggregate is the concatenation of the pages' records in page order,
\* its length the sum of the pages' lengths.
AllPagesAggregated ==
    (Executed /\ all_pages) =>
        LET n == Len(received)
        IN  /\ n >= 1
            /\ Len(requested) = n
            /\ \A i \in 1..n : IsPage(received[i])
            /\ \A i \in 1..(n - 1) : HasRef(received[i])
            /\ ~HasRef(received[n])
            /\ Val(data) = ConcatPages(received, n)
            /\ Len(Val(data)) = SumPages(received, n)

AllPagesAggregatedWitness ==
    /\ Executed /\ all_pages
    /\ Len(received) = 2
    /\ PageRecords(received[1]) = <<"r1", "r2">>
    /\ PageRecords(received[2]) = <<"r1">>
    /\ Val(data) = <<"r1", "r2", "r1">>

\* C2: with fetchAllPages false, an execution of fetch_data issues exactly
\* one request and never moves off the initial URL, whether or not the
\* response carries a continuation reference.
SinglePageOneRequest ==
    (query_url # None /\ ~all_pages) =>
        /\ Len(requested) = 1
        /\ full_url = query_url
        /\ Len(received) <= 1
        /\ (received # <<>> => pc = "done")

SinglePageOneRequestWitness ==
    /\ Executed /\ ~all_pages
    /\ Len(requested) = 1
    /\ IsPage(received[1]) /\ HasRef(received[1])

\* C3: a response whose status is not 200 is the last event of the
\* execution: no request follows it, the error shown carries its status and
\* body, and nothing else is rendered (no table, CSV, JSON or warning).
FailedResponseAborts ==
    \A i \in 1..Len(received) :
        (received[i].kind = "response" /\ received[i].status # 200) =>
            /\ i = Len(received)
            /\ Len(requested) = i
            /\ pc = "done"
            /\ data = None
            /\ ui = [NoOutput EXCEPT !.errors =
                        <<FetchError(received[i].status, received[i].text)>>]

FailedResponseAbortsWitness ==
    /\ pc = "done"
    /\ Len(received) = 3
    /\ received[3].kind = "response" /\ received[3].status = 403
    /\ all_records # <<>>
    /\ ui.dataframe = None

\* C4: with fetchAllPages true the loop is still requesting exactly as long
\* as every response so far had status 200 and carried a continuation
\* reference, however many pages were fetched and whether or not a URL
\* repeats; it has stopped once a response lacked the reference.
LoopFollowsEveryReference ==
    (all_pages /\ requested # <<>>) =>
        LET n == Len(received)
        IN  /\ pc = "wait" <=>
                   \A i \in 1..n : IsPage(received[i]) /\ HasRef(received[i])
            /\ Len(requested) = IF pc = "wait" THEN n + 1 ELSE n
            /\ (n >= 1 /\ IsPage(received[n]) /\ ~HasRef(received[n]))
                   => Executed

LoopFollowsEveryReferenceWitness ==
    /\ pc = "wait" /\ all_pages
    /\ Len(requested) = MaxRequests
    /\ \A i \in 2..Len(requested) : requested[i].url = AbsoluteRef

Absent(o) == o = None \/ o = Some(<<>>)

\* C5: when the access token or the instance URL is missing or empty under
\* both of its keys, the run ends with the credential error and no request
\* is ever issued.
MissingCredentialsFatal ==
    (pc # "start"
        /\ \/ Absent(auth_json.access_token) /\ Absent(auth_json.accessToken)
           \/ Absent(auth_json.instance_url) /\ Absent(auth_json.instanceUrl))
    => /\ pc = "cred_error"
       /\ auth_credentials = None
       /\ requested = <<>>
       /\ received = <<>>
       /\ ui = NoOutput

MissingCredentialsFatalWitness ==
    /\ pc = "cred_error"
    /\ auth_json.access_token = Some(<<"tok1">>)
    /\ auth_json.instance_url = Some(<<>>)

\* C6: a fetch that returns an empty aggregate renders the warning and
\* nothing else; an error is never rendered together with the warning, a
\* failed response leaves the aggregate None and not empty, and neither
\* outcome renders a table or a CSV.
EmptyResultIsWarning ==
    /\ (pc = "done" /\ data = Some(<<>>))
           => ui = [NoOutput EXCEPT !.warning = TRUE]
    /\ ui.warning => (ui.errors = <<>> /\ data = Some(<<>>))
    /\ ui.errors # <<>> => (data = None /\ ~ui.warning)
    /\ (ui.warning \/ ui.errors # <<>>)
           => (ui.dataframe = None /\ ui.csv = None)

EmptyResultIsWarningWitness ==
    /\ pc = "done" /\ data = Some(<<>>)
    /\ Len(received) = 2
    /\ ui.warning

RawUrl == Val(auth_credentials).instance_url

BeginsWithScheme(s) == s # <<>> /\ s[1] \in {"http://", "https://"}

\* C7, as stated: an instance URL without a scheme prefix comes out with
\* https:// in front, one that begins with http:// or https:// comes out
\* unchanged, normalising again changes nothing and the result begins with
\* a scheme.
NormalizationAsStated ==
    pc = "form" =>
        /\ ~BeginsWithScheme(RawUrl) => instance_url[1] = "https://"
        /\ BeginsWithScheme(RawUrl) => instance_url = RawUrl
        /\ NormalizeInstanceUrl(instance_url) = instance_url
        /\ BeginsWithScheme(instance_url)

\* C7, amended: the same of the instance URL with its leading and trailing
\* whitespace removed.
NormalizationOfStripped ==
    pc = "form" =>
        /\ ~BeginsWithScheme(strip(RawUrl))
               => instance_url = <<"https://">> \o strip(RawUrl)
        /\ BeginsWithScheme(strip(RawUrl)) => instance_url = strip(RawUrl)
        /\ NormalizeInstanceUrl(instance_url) = instance_url
        /\ BeginsWithScheme(instance_url)

NormalizationOfStrippedWitness ==
    /\ pc = "form"
    /\ RawUrl = <<"http://", "a", " ">>
    /\ instance_url = <<"http://", "a">>

SnakeOnly(f) == f.accessToken = None /\ f.instanceUrl = None

CamelOnly(f) == f.access_token = None /\ f.instance_url = None

SwapAliases(f) ==
    AuthJson(f.accessToken, f.access_token, f.instanceUrl, f.instance_url)

\* C8: a file that uses one key convention resolves to the values it
\* carries, the same as the file with the keys of the other convention, and
\* when both keys of a concept are there the first non-empty one, snake_case
\* before camelCase, is taken.
AliasesEquivalent ==
    pc = "form" =>
        LET c == Val(auth_credentials)
            swapped == load_auth_credentials(SwapAliases(auth_json))
        IN  /\ SnakeOnly(auth_json) =>
                   /\ c.access_token = Val(auth_json.access_token)
                   /\ c.instance_url = Val(auth_json.instance_url)
            /\ CamelOnly(auth_json) =>
                   /\ c.access_token = Val(auth_json.accessToken)
                   /\ c.instance_url = Val(auth_json.instanceUrl)
            /\ (SnakeOnly(auth_json) \/ CamelOnly(auth_json)) =>
                   /\ ~swapped.raised
                   /\ c.access_token = Val(swapped.access_token)
                   /\ c.instance_url = Val(swapped.instance_url)
                   /\ instance_url =
                          NormalizeInstanceUrl(Val(swapped.instance_url))
            /\ c.access_token =
                   IF Absent(auth_json.access_token)
                   THEN Val(auth_json.accessToken)
                   ELSE Val(auth_json.access_token)
            /\ c.instance_url =
                   IF Absent(auth_json.instance_url)
                   THEN Val(auth_json.instanceUrl)
                   ELSE Val(auth_json.instance_url)

AliasesEquivalentWitness ==
    /\ pc = "form"
    /\ auth_json.access_token = Some(<<"tok1">>)
    /\ auth_json.accessToken = Some(<<"tok2">>)
    /\ auth_json.instance_url = Some(<<>>)
    /\ auth_json.instanceUrl = Some(<<"a">>)
    /\ Val(auth_credentials) =
           [access_token |-> <<"tok1">>, instance_url |-> <<"a">>]

\* C9: an exception raised by a request is the last event of the execution:
\* no request follows it, it is rendered as the generic error, and nothing
\* collected from earlier pages is rendered.
ExceptionAborts ==
    \A i \in 1..Len(received) :
        received[i].kind = "exception" =>
            /\ i = Len(received)
            /\ Len(requested) = i
            /\ pc = "done"
            /\ data = None
            /\ ui = [NoOutput EXCEPT !.errors =
                        <<ExecutionError(received[i].text)>>]

ExceptionAbortsWitness ==
    /\ pc = "done"
    /\ Len(received) = 2
    /\ received[2].kind = "exception"
    /\ all_records # <<>>
    /\ ui.dataframe = None

\* C10: at most one request is outstanding; the first request goes to the
\* formed API URL and each later one to the continuation reference of the
\* response just before it, an absolute reference as it is and a reference
\* beginning with "/" on the scheme and host of the instance URL, which is
\* the one resolved from the credentials; every request carries the same
\* headers.
RequestsSequential ==
    requested # <<>> =>
        /\ Len(received) <= Len(requested)
        /\ Len(requested) <= Len(received) + 1
        /\ (pc = "wait") <=> (Len(requested) = Len(received) + 1)
        /\ requested[1].url = Val(query_url)
        /\ instance_url = NormalizeInstanceUrl(RawUrl)
        /\ \A i \in 1..Len(requested) :
               requested[i].headers =
                   [Authorization |->
                        <<"Bearer ">> \o Val(auth_credentials).access_token,
                    ContentType |-> "application/json"]
        /\ \A i \in 2..Len(requested) :
               LET prev == received[i - 1]
                   ref == Val(prev.json.nextRecordsUrl)
               IN  /\ IsPage(prev) /\ HasRef(prev)
                   /\ requested[i].url =
                          IF BeginsWithScheme(ref) THEN ref
                          ELSE Origin(instance_url) \o ref

RequestsSequentialWitness ==
    /\ Len(requested) = 3
    /\ instance_url = <<"https://", "a", "/", "p">>
    /\ requested[2].url = <<"https://", "a", "/", "query/01g-500">>
    /\ requested[3].url = AbsoluteRef

====
